---------------------------- MODULE Spec2Model ----------------------------
(***************************************************************************)
(* A model of log.c (src/src/log.c, src/src/log.h): the process-wide       *)
(* registry L, the registration and configuration calls, and log_log, the  *)
(* dispatcher, executed by several threads one statement group at a time.  *)
(*                                                                         *)
(* Outside the library and modelled as its environment:                    *)
(*   - the system clock read by time(NULL) (clock): each reading is the    *)
(*     last one or later;                                                  *)
(*   - the one static struct tm that localtime() fills and returns the     *)
(*     address of (tmbuf);                                                 *)
(*   - the mutexes behind the caller's lock hooks (mutex): a hook called   *)
(*     with true waits for the mutex named by its udata and takes it, a    *)
(*     hook called with false gives it back.                               *)
(* The pass-through fields of log_Event (fmt, file, line, ap) are not      *)
(* read by the dispatcher and are left out.                                *)
(*                                                                         *)
(* History kept beside the program's state: each dispatch's trace of hook  *)
(* calls, clock reads and sink invocations; the order of the sink          *)
(* invocations of concurrent dispatches (lastInv, cut); and the strings    *)
(* log_level_string has returned (names).                                  *)
(***************************************************************************)
EXTENDS Integers, Sequences, FiniteSets

(* ------------------------------ bounds -------------------------------- *)

\* Capacity of L.callbacks. log.c:32 sets it to 32; the model keeps the
\* array and every loop over it, with a small number of slots.
MAX_CALLBACKS == 2

\* The clock's readings run from 1 to MaxClock.
MaxClock == 2

(* ------------------------- program constants -------------------------- *)

LOG_TRACE == 0
LOG_DEBUG == 1
LOG_INFO  == 2
LOG_WARN  == 3
LOG_ERROR == 4
LOG_FATAL == 5

\* typedef enum { LOG_TRACE, ..., LOG_FATAL } log_level
Levels == LOG_TRACE .. LOG_FATAL

NULL == "NULL"

\* The console sink's output target.
stderr == "stderr"

\* The two built-in sinks.
stdout_callback == "stdout_callback"
file_callback == "file_callback"

\* The address localtime() returns: its one static struct tm.
TM_STATIC == "tm_static"

(* ------------------------------ inputs -------------------------------- *)

Threads == {"t1", "t2"}

\* Arguments of log_set_lock: no hook, or one of two hooks, each guarding
\* its own mutex.
LockArgs == { <<NULL, NULL>>, <<"lockA", "mA">>, <<"lockB", "mB">> }

Mutexes == {"mA", "mB"}

NoOwner == "none"

NoThread == "nobody"

\* Arguments (fn, udata) of log_add_callback.
CallbackArgs == { <<"cb", "u1">> }

\* Arguments fp of log_add_fp.
Files == {"fp1"}

\* Arguments of log_set_lock tried by the one-thread specification.
SeqLockArgs == { <<NULL, NULL>>, <<"lockA", "mA">> }

\* Levels passed to log_add_fp.
FileLevels == { LOG_WARN }

\* The level of every dispatch and of every sink in the two-thread
\* specification, where what matters is the order of the steps (the
\* one-thread specification tries every level).
OneLevel == { LOG_WARN }

Slots == 0 .. (MAX_CALLBACKS - 1)

(* ------------------------------- state -------------------------------- *)

VARIABLES
    L,          \* the registry: udata, lock, level, quiet, callbacks
    clock,      \* what time(NULL) returned last
    tmbuf,      \* contents of localtime()'s static struct tm
    mutex,      \* owner of each mutex behind a lock hook
    pc,         \* where each thread is in log_log
    ev,         \* each thread's log_Event (a local of log_log)
    i,          \* each thread's loop index in log_log
    trace,      \* what the thread's current dispatch has done, in order
    lockRaced,  \* log_set_lock changed the hook while a dispatch held it
    ret,        \* return value of the last registration call
    lastInv,    \* the thread that invoked a sink last, while dispatches run
    cut,        \* in its dispatch under way, another thread invoked a sink
                \* between two sink invocations of the thread's
    names       \* what log_level_string returned last for each level

vars == << L, clock, tmbuf, mutex, pc, ev, i, trace, lockRaced, ret,
           lastInv, cut, names >>

\* Callback: an unused slot is all zeroes.
EmptyCallback == [fn |-> NULL, udata |-> NULL, level |-> LOG_TRACE]

\* log_Event as log_log initialises it: the fields not named are zero.
NewEvent(level) == [level |-> level, time |-> NULL, udata |-> NULL]

Init ==
    /\ L = [udata |-> NULL, lock |-> NULL, level |-> LOG_TRACE,
            quiet |-> FALSE, callbacks |-> [s \in Slots |-> EmptyCallback]]
    /\ clock = 1
    /\ tmbuf = 0
    /\ mutex = [m \in Mutexes |-> NoOwner]
    /\ pc = [t \in Threads |-> "idle"]
    /\ ev = [t \in Threads |-> NewEvent(LOG_TRACE)]
    /\ i = [t \in Threads |-> 0]
    /\ trace = [t \in Threads |-> << >>]
    /\ lockRaced = FALSE
    /\ ret = 0
    /\ lastInv = NoThread
    /\ cut = [t \in Threads |-> FALSE]
    /\ names = [l \in Levels |-> NULL]

(* ------------------------------ helpers ------------------------------- *)

\* Threads inside log_log.
Dispatching == { t \in Threads : pc[t] \in {"lock", "console", "loop", "unlock"} }

\* Threads between lock() and unlock().
InFlight == { t \in Threads : pc[t] \in {"console", "loop", "unlock"} }

\* A new library call is made: the record kept of each dispatch that has
\* returned (its event, loop index and trace) is dropped.
Forget(f, zero) == [t \in Threads |-> IF pc[t] = "done" THEN zero ELSE f[t]]

\* Mutant: the scan runs from the last slot down.
FirstFree_Last(cbs) ==
    IF \E s \in Slots : cbs[s].fn = NULL
    THEN CHOOSE s \in Slots :
            /\ cbs[s].fn = NULL
            /\ \A r \in Slots : r > s => cbs[r].fn # NULL
    ELSE MAX_CALLBACKS

\* The first slot whose fn is null, or MAX_CALLBACKS when there is none:
\* the scan of log_add_callback.
FirstFree(cbs) ==
    IF \E s \in Slots : cbs[s].fn = NULL
    THEN CHOOSE s \in Slots :
            /\ cbs[s].fn = NULL
            /\ \A r \in Slots : r < s => cbs[r].fn # NULL
    ELSE MAX_CALLBACKS

(* ---------------------------- level names ----------------------------- *)

\* Mutant: two levels share a name.
level_strings_Dup == << "TRACE", "DEBUG", "INFO", "WARN", "WARN", "FATAL" >>

\* static const char *level_strings[]; a sequence's first index is 1.
level_strings == << "TRACE", "DEBUG", "INFO", "WARN", "ERROR", "FATAL" >>

\* const char *log_level_string(log_level level)
log_level_string(level) == level_strings[level + 1]

\* A call of log_level_string; its result is noted.
LevelString(level) ==
    /\ names' = [names EXCEPT ![level] = log_level_string(level)]
    /\ UNCHANGED << L, clock, tmbuf, mutex, pc, ev, i, trace, lockRaced, ret,
                    lastInv, cut >>

(* --------------------------- configuration ---------------------------- *)

\* Mutant: a hook, once installed, stays; later calls change nothing.
log_set_lock_KeepFirst(fn, udata, quiescent) ==
    /\ quiescent => Dispatching = {}
    /\ L' = IF L.lock = NULL THEN [L EXCEPT !.lock = fn, !.udata = udata]
            ELSE L
    /\ pc' = Forget(pc, "idle")
    /\ ev' = Forget(ev, NewEvent(LOG_TRACE))
    /\ i' = Forget(i, 0)
    /\ trace' = Forget(trace, << >>)
    /\ lockRaced' = (lockRaced \/ (L' # L /\ InFlight # {}))
    /\ UNCHANGED << clock, tmbuf, mutex, ret, lastInv, cut, names >>

\* void log_set_lock(log_LockFn fn, void *udata)
log_set_lock(fn, udata, quiescent) ==
    /\ quiescent => Dispatching = {}
    /\ L' = [L EXCEPT !.lock = fn, !.udata = udata]
    /\ pc' = Forget(pc, "idle")
    /\ ev' = Forget(ev, NewEvent(LOG_TRACE))
    /\ i' = Forget(i, 0)
    /\ trace' = Forget(trace, << >>)
    /\ lockRaced' = (lockRaced \/ (L' # L /\ InFlight # {}))
    /\ UNCHANGED << clock, tmbuf, mutex, ret, lastInv, cut, names >>

\* void log_set_level(log_level level)
log_set_level(level, quiescent) ==
    /\ quiescent => Dispatching = {}
    /\ L' = [L EXCEPT !.level = level]
    /\ pc' = Forget(pc, "idle")
    /\ ev' = Forget(ev, NewEvent(LOG_TRACE))
    /\ i' = Forget(i, 0)
    /\ trace' = Forget(trace, << >>)
    /\ UNCHANGED << clock, tmbuf, mutex, lockRaced, ret, lastInv, cut,
                    names >>

\* void log_set_quiet(bool enable)
log_set_quiet(enable, quiescent) ==
    /\ quiescent => Dispatching = {}
    /\ L' = [L EXCEPT !.quiet = enable]
    /\ pc' = Forget(pc, "idle")
    /\ ev' = Forget(ev, NewEvent(LOG_TRACE))
    /\ i' = Forget(i, 0)
    /\ trace' = Forget(trace, << >>)
    /\ UNCHANGED << clock, tmbuf, mutex, lockRaced, ret, lastInv, cut,
                    names >>

(* ---------------------------- registration ---------------------------- *)

\* Mutant: log_add_callback reports success also when no slot is free.
AddResult_Always(cbs) == 0

\* The return value of log_add_callback on a sink array cbs.
AddResult(cbs) == IF FirstFree(cbs) < MAX_CALLBACKS THEN 0 ELSE -1

\* Mutant: a full array has its last slot overwritten.
AddStore_Overwrite(cbs, fn, udata, level) ==
    [cbs EXCEPT ![IF FirstFree(cbs) < MAX_CALLBACKS THEN FirstFree(cbs)
                  ELSE MAX_CALLBACKS - 1] =
                    [fn |-> fn, udata |-> udata, level |-> level]]

\* Mutant: the new sink goes in front and the others move up one slot.
AddStore_Front(cbs, fn, udata, level) ==
    IF FirstFree(cbs) < MAX_CALLBACKS
    THEN [s \in Slots |->
            IF s = 0 THEN [fn |-> fn, udata |-> udata, level |-> level]
            ELSE IF s <= FirstFree(cbs) THEN cbs[s - 1] ELSE cbs[s]]
    ELSE cbs

\* The sink array after log_add_callback(fn, udata, level) on cbs.
AddStore(cbs, fn, udata, level) ==
    IF FirstFree(cbs) < MAX_CALLBACKS
    THEN [cbs EXCEPT ![FirstFree(cbs)] =
                        [fn |-> fn, udata |-> udata, level |-> level]]
    ELSE cbs

\* int log_add_callback(log_LogFn fn, void *udata, log_level level)
log_add_callback(fn, udata, level, quiescent) ==
    /\ quiescent => Dispatching = {}
    /\ ret' = AddResult(L.callbacks)
    /\ L' = [L EXCEPT !.callbacks = AddStore(L.callbacks, fn, udata, level)]
    /\ pc' = Forget(pc, "idle")
    /\ ev' = Forget(ev, NewEvent(LOG_TRACE))
    /\ i' = Forget(i, 0)
    /\ trace' = Forget(trace, << >>)
    /\ UNCHANGED << clock, tmbuf, mutex, lockRaced, lastInv, cut, names >>

\* int log_add_fp(FILE *fp, log_level level)
log_add_fp(fp, level, quiescent) ==
    log_add_callback(file_callback, fp, level, quiescent)

(* ----------------------------- environment ---------------------------- *)

\* What a call of time(NULL) may return: the last reading, or a later one.
Times == { c \in { clock, clock + 1 } : c <= MaxClock }

\* The mutexes a lock hook called with false by thread t may leave behind.
\* The owner gives the mutex back; a thread that does not own it makes a
\* call the mutex does not define, which may free it or leave it.
HookRelease(m, t) ==
    IF mutex[m] = t
    THEN { [mutex EXCEPT ![m] = NoOwner] }
    ELSE { mutex, [mutex EXCEPT ![m] = NoOwner] }

(* ----------------------------- dispatcher ----------------------------- *)

\* One entry of a dispatch's trace.
Entry(op, fn, udata, slot, time) ==
    [op |-> op, fn |-> fn, udata |-> udata, slot |-> slot, time |-> time]

\* Mutant: the clock is read on every call of init_event.
NeedsTime_Always(e) == TRUE

\* init_event: whether the clock is read.
NeedsTime(e) == e.time = NULL

\* Mutant: the context is bound only together with the time, on the first
\* sink a dispatch invokes.
init_event_BindOnce(e, udata) ==
    [e EXCEPT !.time = IF NeedsTime(e) THEN TM_STATIC ELSE @,
              !.udata = IF NeedsTime(e) THEN udata ELSE @]

\* init_event: the event it leaves.
init_event(e, udata) ==
    [e EXCEPT !.time = IF NeedsTime(e) THEN TM_STATIC ELSE @,
              !.udata = udata]

\* The clock's last reading after init_event on e, time(NULL) returning now.
ClockAfter(e, now) == IF NeedsTime(e) THEN now ELSE clock

\* localtime()'s static struct tm after init_event on e.
TmAfter(e, now) == IF NeedsTime(e) THEN now ELSE tmbuf

\* What init_event on e and the sink call that follows add to the trace:
\* the clock read, if any, then the invocation with the context and the
\* time the sink reads through the event.
Invocation(e, now, op, fn, udata, slot) ==
    (IF NeedsTime(e) THEN << Entry("time", NULL, NULL, slot, now) >>
     ELSE << >>)
    \o << Entry(op, fn, init_event(e, udata).udata, slot, TmAfter(e, now)) >>

\* Thread t is about to invoke a sink, and since the last sink its
\* dispatch invoked another thread has invoked one.
CutBy(t) ==
    /\ \E k \in 1 .. Len(trace[t]) : trace[t][k].op \in {"console", "sink"}
    /\ lastInv \notin {t, NoThread}

\* The last thread to invoke a sink, as kept once t's dispatch returns:
\* it is kept only while another dispatch is between lock() and unlock().
LastAfterReturn(t) ==
    IF InFlight \ {t} = {} THEN NoThread ELSE lastInv

\* log_log, its locals: log_Event ev = { .level = level, ... }
LogStart(t, level) ==
    /\ pc[t] \in {"idle", "done"}
    /\ pc' = [Forget(pc, "idle") EXCEPT ![t] = "lock"]
    /\ ev' = [Forget(ev, NewEvent(LOG_TRACE)) EXCEPT ![t] = NewEvent(level)]
    /\ i' = Forget(i, 0)
    /\ trace' = Forget(trace, << >>)
    /\ UNCHANGED << L, clock, tmbuf, mutex, lockRaced, ret, lastInv, cut,
                    names >>

\* Mutant: the hook is never called.
HasHook_Never == FALSE

\* lock(), unlock(): whether a hook is called.
HasHook == L.lock # NULL

\* Mutant: the dispatcher has a lock of its own; lock() waits until no
\* other dispatch is between lock() and unlock(), hook or no hook.
Lock_Builtin(t) ==
    /\ pc[t] = "lock"
    /\ InFlight = {}
    /\ pc' = [pc EXCEPT ![t] = "console"]
    /\ IF HasHook
       THEN /\ mutex[L.udata] = NoOwner
            /\ mutex' = [mutex EXCEPT ![L.udata] = t]
            /\ trace' = [trace EXCEPT ![t] =
                  Append(@, Entry("acquire", L.lock, L.udata, -1, 0))]
       ELSE UNCHANGED << mutex, trace >>
    /\ UNCHANGED << L, clock, tmbuf, ev, i, lockRaced, ret, lastInv,
                    cut, names >>

\* lock()
Lock(t) ==
    /\ pc[t] = "lock"
    /\ pc' = [pc EXCEPT ![t] = "console"]
    /\ IF HasHook
       THEN /\ mutex[L.udata] = NoOwner
            /\ mutex' = [mutex EXCEPT ![L.udata] = t]
            /\ trace' = [trace EXCEPT ![t] =
                  Append(@, Entry("acquire", L.lock, L.udata, -1, 0))]
       ELSE UNCHANGED << mutex, trace >>
    /\ UNCHANGED << L, clock, tmbuf, ev, i, lockRaced, ret, lastInv,
                    cut, names >>

\* Mutant: the console block is gated by quiet alone.
ConsoleFires_NoLevel(level) == ~L.quiet

\* Mutant: the console block is gated by the level alone.
ConsoleFires_IgnoreQuiet(level) == level >= L.level

\* Mutant: the console block needs a level above the global minimum.
ConsoleFires_Strict(level) == ~L.quiet /\ level > L.level

\* if (!L.quiet && level >= L.level)
ConsoleFires(level) == ~L.quiet /\ level >= L.level

\* The console block of log_log.
Console(t, now) ==
    /\ pc[t] = "console"
    /\ pc' = [pc EXCEPT ![t] = "loop"]
    /\ IF ConsoleFires(ev[t].level)
       THEN /\ ev' = [ev EXCEPT ![t] = init_event(@, stderr)]
            /\ clock' = ClockAfter(ev[t], now)
            /\ tmbuf' = TmAfter(ev[t], now)
            /\ trace' = [trace EXCEPT ![t] =
                  @ \o Invocation(ev[t], now, "console", stdout_callback,
                                  stderr, -1)]
            /\ lastInv' = t
       ELSE UNCHANGED << ev, clock, tmbuf, trace, lastInv >>
    /\ UNCHANGED << L, mutex, i, lockRaced, ret, cut, names >>

\* The loop condition: i < MAX_CALLBACKS && L.callbacks[i].fn
LoopContinues(idx) == idx < MAX_CALLBACKS /\ L.callbacks[idx].fn # NULL

\* Mutant: a sink needs a level above its minimum.
SinkFires_Strict(level, cb) == level > cb.level

\* if (level >= cb->level)
SinkFires(level, cb) == level >= cb.level

\* Mutant: the loop visits the slots from the last one down.
Loop_Backwards(t, now) ==
    /\ pc[t] = "loop"
    /\ IF i[t] < MAX_CALLBACKS /\ L.callbacks[MAX_CALLBACKS - 1 - i[t]].fn # NULL
       THEN LET slot == MAX_CALLBACKS - 1 - i[t]
                cb == L.callbacks[slot] IN
            /\ i' = [i EXCEPT ![t] = @ + 1]
            /\ pc' = pc
            /\ IF SinkFires(ev[t].level, cb)
               THEN /\ ev' = [ev EXCEPT ![t] = init_event(@, cb.udata)]
                    /\ clock' = ClockAfter(ev[t], now)
                    /\ tmbuf' = TmAfter(ev[t], now)
                    /\ trace' = [trace EXCEPT ![t] =
                          @ \o Invocation(ev[t], now, "sink", cb.fn, cb.udata,
                                          slot)]
                    /\ lastInv' = t
                    /\ cut' = [cut EXCEPT ![t] = @ \/ CutBy(t)]
               ELSE UNCHANGED << ev, clock, tmbuf, trace, lastInv, cut >>
       ELSE /\ pc' = [pc EXCEPT ![t] = "unlock"]
            /\ UNCHANGED << i, ev, clock, tmbuf, trace, lastInv, cut >>
    /\ UNCHANGED << L, mutex, lockRaced, ret, names >>

\* Mutant: a registered sink is taken off the list once it has fired.
Loop_Consumes(t, now) ==
    /\ pc[t] = "loop"
    /\ IF LoopContinues(i[t])
       THEN LET cb == L.callbacks[i[t]] IN
            /\ i' = [i EXCEPT ![t] = @ + 1]
            /\ pc' = pc
            /\ IF SinkFires(ev[t].level, cb)
               THEN /\ ev' = [ev EXCEPT ![t] = init_event(@, cb.udata)]
                    /\ clock' = ClockAfter(ev[t], now)
                    /\ tmbuf' = TmAfter(ev[t], now)
                    /\ trace' = [trace EXCEPT ![t] =
                          @ \o Invocation(ev[t], now, "sink", cb.fn, cb.udata,
                                          i[t])]
                    /\ lastInv' = t
                    /\ cut' = [cut EXCEPT ![t] = @ \/ CutBy(t)]
                    /\ L' = [L EXCEPT !.callbacks[i[t]] = EmptyCallback]
               ELSE UNCHANGED << ev, clock, tmbuf, trace, lastInv, cut, L >>
       ELSE /\ pc' = [pc EXCEPT ![t] = "unlock"]
            /\ UNCHANGED << i, ev, clock, tmbuf, trace, lastInv, cut, L >>
    /\ UNCHANGED << mutex, lockRaced, ret, names >>

\* One turn of the loop of log_log, or its exit.
Loop(t, now) ==
    /\ pc[t] = "loop"
    /\ IF LoopContinues(i[t])
       THEN LET cb == L.callbacks[i[t]] IN
            /\ i' = [i EXCEPT ![t] = @ + 1]
            /\ pc' = pc
            /\ IF SinkFires(ev[t].level, cb)
               THEN /\ ev' = [ev EXCEPT ![t] = init_event(@, cb.udata)]
                    /\ clock' = ClockAfter(ev[t], now)
                    /\ tmbuf' = TmAfter(ev[t], now)
                    /\ trace' = [trace EXCEPT ![t] =
                          @ \o Invocation(ev[t], now, "sink", cb.fn, cb.udata,
                                          i[t])]
                    /\ lastInv' = t
                    /\ cut' = [cut EXCEPT ![t] = @ \/ CutBy(t)]
               ELSE UNCHANGED << ev, clock, tmbuf, trace, lastInv, cut >>
       ELSE /\ pc' = [pc EXCEPT ![t] = "unlock"]
            /\ UNCHANGED << i, ev, clock, tmbuf, trace, lastInv, cut >>
    /\ UNCHANGED << L, mutex, lockRaced, ret, names >>

\* Mutant: log_log returns without calling unlock().
Unlock_NoRelease(t) ==
    /\ pc[t] = "unlock"
    /\ pc' = [pc EXCEPT ![t] = "done"]
    /\ lastInv' = LastAfterReturn(t)
    /\ cut' = [cut EXCEPT ![t] = FALSE]
    /\ UNCHANGED << L, clock, tmbuf, mutex, ev, i, trace, lockRaced, ret,
                    names >>

\* unlock(), and the return of log_log
Unlock(t) ==
    /\ pc[t] = "unlock"
    /\ pc' = [pc EXCEPT ![t] = "done"]
    /\ IF HasHook
       THEN /\ mutex' \in HookRelease(L.udata, t)
            /\ trace' = [trace EXCEPT ![t] =
                  Append(@, Entry("release", L.lock, L.udata, -1, 0))]
       ELSE UNCHANGED << mutex, trace >>
    /\ lastInv' = LastAfterReturn(t)
    /\ cut' = [cut EXCEPT ![t] = FALSE]
    /\ UNCHANGED << L, clock, tmbuf, ev, i, lockRaced, ret, names >>

(* --------------------------- specification ---------------------------- *)

\* The calls and steps, their inputs drawn from the sets given. With
\* quiescent, a configuration or registration call is made only while no
\* dispatch is under way.

SetLock(args, quiescent) == \E a \in args : log_set_lock(a[1], a[2], quiescent)

SetLevel(levels, quiescent) == \E l \in levels : log_set_level(l, quiescent)

SetQuiet(quiescent) == \E b \in BOOLEAN : log_set_quiet(b, quiescent)

AddCallback(levels, quiescent) ==
    \E a \in CallbackArgs, l \in levels :
        log_add_callback(a[1], a[2], l, quiescent)

\* log_add_callback with a null fn.
AddNull(quiescent) == log_add_callback(NULL, NULL, LOG_TRACE, quiescent)

AddFp(levels, quiescent) ==
    \E fp \in Files, l \in levels : log_add_fp(fp, l, quiescent)

Start(T, levels) == \E t \in T, l \in levels : LogStart(t, l)

DoLock(T) == \E t \in T : Lock(t)

DoConsole(T) == \E t \in T, now \in Times : Console(t, now)

DoLoop(T) == \E t \in T, now \in Times : Loop(t, now)

DoUnlock(T) == \E t \in T : Unlock(t)

\* One thread; every call is made after the one before it has returned.
Next ==
    \/ SetLock(SeqLockArgs, TRUE)
    \/ SetLevel(Levels, TRUE)
    \/ SetQuiet(TRUE)
    \/ AddCallback(Levels, TRUE)
    \/ AddNull(TRUE)
    \/ AddFp(FileLevels, TRUE)
    \/ Start({"t1"}, Levels)
    \/ DoLock({"t1"})
    \/ DoConsole({"t1"})
    \/ DoLoop({"t1"})
    \/ DoUnlock({"t1"})

Spec == Init /\ [][Next]_vars

\* Two threads; log_set_lock and log_add_callback are called at any time,
\* also during a dispatch. The global level and the quiet flag keep their
\* initial values.
NextMT ==
    \/ SetLock(LockArgs, FALSE)
    \/ AddCallback(OneLevel, FALSE)
    \/ Start(Threads, OneLevel)
    \/ DoLock(Threads)
    \/ DoConsole(Threads)
    \/ DoLoop(Threads)
    \/ DoUnlock(Threads)

SpecMT == Init /\ [][NextMT]_vars

\* log_level_string called for any level, between configuration and
\* registration calls that change the registry.
NextStr ==
    \/ \E l \in Levels : LevelString(l)
    \/ SetLock(SeqLockArgs, TRUE)
    \/ SetLevel(Levels, TRUE)
    \/ SetQuiet(TRUE)
    \/ AddFp(FileLevels, TRUE)

SpecStr == Init /\ [][NextStr]_vars

\* Two threads and the lock hooks: log_set_lock is called at any time,
\* also during a dispatch; the console sink is the only sink.
NextHook ==
    \/ SetLock(LockArgs, FALSE)
    \/ Start(Threads, OneLevel)
    \/ DoLock(Threads)
    \/ DoConsole(Threads)
    \/ DoLoop(Threads)
    \/ DoUnlock(Threads)

SpecHook == Init /\ [][NextHook]_vars

\* The same, with the scheduling the dispatcher relies on: a thread inside
\* log_log keeps running (its sinks return), and a hook called with true
\* returns if its mutex is free again and again (the mutex is fair).
\* Nothing obliges a caller to make a further call.
Fairness ==
    \A t \in Threads :
        /\ SF_vars(Lock(t))
        /\ WF_vars(\E now \in Times : Console(t, now))
        /\ WF_vars(\E now \in Times : Loop(t, now))
        /\ WF_vars(Unlock(t))

SpecLive == SpecHook /\ Fairness

(* ------------------------- reading a dispatch ------------------------- *)

\* Thread t has returned from a dispatch and its record is still kept.
Done(t) == pc[t] = "done"

\* Positions of trace[t] that hold an entry of one of the kinds ops.
Positions(t, ops) == { k \in 1 .. Len(trace[t]) : trace[t][k].op \in ops }

\* Sink invocations (console and registered) of t's dispatch so far.
Invocations(t) == Positions(t, {"console", "sink"})

\* Slots whose registered sink t's dispatch has invoked.
FiredSlots(t) == { trace[t][k].slot : k \in Positions(t, {"sink"}) }

\* Slots holding a registration.
Registered == { s \in Slots : L.callbacks[s].fn # NULL }

\* Registered sinks whose own threshold a dispatch at level satisfies.
Satisfied(level) == { s \in Registered : level >= L.callbacks[s].level }

\* A lock hook is installed.
Installed == L.lock # NULL

\* Threads whose dispatch has taken the lock, or has returned.
Locked == InFlight \cup { t \in Threads : Done(t) }

(* ------------------------------- claims ------------------------------- *)

\* C1, as stated: a dispatch below the global minimum level invokes no
\* sink at all, neither the console sink nor a registered one.
C1_NoSinkBelowGlobal ==
    \A t \in Threads :
        (Done(t) /\ ev[t].level < L.level) => Invocations(t) = {}

\* C1, amended: a dispatch below the global minimum level never invokes the
\* console sink, and invokes exactly the registered sinks whose own minimum
\* level it reaches: the global level does not gate registered sinks.
C1_ConsoleOnlyGatedByGlobal ==
    \A t \in Threads :
        (Done(t) /\ ev[t].level < L.level) =>
            /\ Positions(t, {"console"}) = {}
            /\ FiredSlots(t) = Satisfied(ev[t].level)

\* A dispatch below the global minimum level has invoked a registered sink.
C1_Witness ==
    \E t \in Threads :
        /\ Done(t)
        /\ ev[t].level < L.level
        /\ FiredSlots(t) # {}

\* C2: a registered sink with minimum level m is invoked by a later
\* dispatch at level l exactly when l >= m.
C2_MonotonicThreshold ==
    \A t \in Threads :
        Done(t) =>
            \A s \in Registered :
                (s \in FiredSlots(t)) <=> (ev[t].level >= L.callbacks[s].level)

\* One dispatch has invoked a sink whose threshold it reaches and has
\* passed over another whose threshold it does not reach.
C2_Witness ==
    \E t \in Threads :
        /\ Done(t)
        /\ \E s1, s2 \in Registered :
              /\ s1 \in FiredSlots(t)
              /\ s2 \notin FiredSlots(t)
              /\ L.callbacks[s1].level <= ev[t].level
              /\ ev[t].level < L.callbacks[s2].level

\* A registration call is made.
Registration ==
    \/ AddCallback(Levels, TRUE)
    \/ AddNull(TRUE)
    \/ AddFp(FileLevels, TRUE)

\* C3: a registration call returns 0 while a slot is free, and once all
\* MAX_CALLBACKS slots hold a sink it returns -1 and leaves the registry
\* as it was.
C3_CapacityExceeded ==
    [][ \/ IF Cardinality(Registered) = MAX_CALLBACKS
           THEN ret' = -1 /\ L' = L
           ELSE ret' = 0
        \/ ~Registration ]_vars

\* The registry is full and a registration call has failed.
C3_Witness ==
    /\ Cardinality(Registered) = MAX_CALLBACKS
    /\ ret = -1

\* C4: with a lock hook installed, and never changed while a dispatch held
\* it, at most one dispatch is between its acquire and its release.
C4_Serialized ==
    (Installed /\ ~lockRaced) => Cardinality(InFlight) <= 1

\* One dispatch holds the lock and has invoked a sink while the other
\* thread's dispatch waits in lock().
C4_Witness ==
    /\ Installed
    /\ ~lockRaced
    /\ \E t, u \in Threads :
          /\ pc[t] = "loop"
          /\ Invocations(t) # {}
          /\ pc[u] = "lock"

\* C5: a dispatch made with a hook installed calls it once with true,
\* before anything else it does, and once with false, after everything
\* else, both times with the installed context; with no hook installed a
\* dispatch calls no hook.
C5_HookBracketsDispatch ==
    \A t \in Threads :
        /\ (t \in Locked /\ Installed) =>
              /\ Positions(t, {"acquire"}) = {1}
              /\ trace[t][1].fn = L.lock
              /\ trace[t][1].udata = L.udata
        /\ (t \in InFlight) => Positions(t, {"release"}) = {}
        /\ (Done(t) /\ Installed) =>
              /\ Positions(t, {"release"}) = {Len(trace[t])}
              /\ trace[t][Len(trace[t])].fn = L.lock
              /\ trace[t][Len(trace[t])].udata = L.udata
        /\ (t \in Locked /\ ~Installed) =>
              Positions(t, {"acquire", "release"}) = {}

\* A dispatch made under a hook has invoked a sink and returned.
C5_Witness ==
    \E t \in Threads :
        /\ Done(t)
        /\ Installed
        /\ Invocations(t) # {}

\* C6: with quiet set, a dispatch does not invoke the console sink and
\* invokes every registered sink whose threshold it reaches, and no other.
C6_QuietOnlyConsole ==
    \A t \in Threads :
        (Done(t) /\ L.quiet) =>
            /\ Positions(t, {"console"}) = {}
            /\ FiredSlots(t) = Satisfied(ev[t].level)

\* A quiet dispatch has invoked a registered sink.
C6_Witness ==
    \E t \in Threads :
        /\ Done(t)
        /\ L.quiet
        /\ FiredSlots(t) # {}

\* C7: the console sink is invoked, once, exactly when quiet is false and
\* the level reaches the global minimum, whatever sinks are registered; it
\* is invoked with no slot of the registry and holds none.
C7_ConsoleGate ==
    \A t \in Threads :
        Done(t) =>
            /\ Cardinality(Positions(t, {"console"})) =
                  (IF ~L.quiet /\ ev[t].level >= L.level THEN 1 ELSE 0)
            /\ \A k \in Positions(t, {"console"}) : trace[t][k].slot = -1
            /\ \A s \in Slots : L.callbacks[s].fn # stdout_callback

\* The console sink has fired in a dispatch that passed over a registered
\* sink with a higher threshold.
C7_Witness ==
    \E t \in Threads :
        /\ Done(t)
        /\ Positions(t, {"console"}) # {}
        /\ \E s \in Registered : ev[t].level < L.callbacks[s].level

\* C8: a dispatch reads the clock at most once; once it has returned, it
\* has read it exactly once if it invoked a sink, and not at all if not.
C8_ClockOncePerDispatch ==
    \A t \in Threads :
        /\ Cardinality(Positions(t, {"time"})) <= 1
        /\ Done(t) =>
              Cardinality(Positions(t, {"time"})) =
                  (IF Invocations(t) # {} THEN 1 ELSE 0)

\* A dispatch has invoked three sinks on one reading of the clock.
C8_Witness ==
    \E t \in Threads :
        /\ Done(t)
        /\ Cardinality(Invocations(t)) >= 3
        /\ Cardinality(Positions(t, {"time"})) = 1

\* C9, as stated: all sinks invoked in one dispatch read the same time
\* through the event.
C9_SameTimestamp ==
    \A t \in Threads :
        \A j, k \in Invocations(t) : trace[t][j].time = trace[t][k].time

\* C10: within a dispatch the console sink comes before every registered
\* sink, and the registered sinks invoked come in slot order, each once.
C10_InvocationOrder ==
    \A t \in Threads :
        \A j, k \in Invocations(t) :
            j < k =>
                /\ trace[t][k].op = "sink"
                /\ trace[t][j].op = "sink" => trace[t][j].slot < trace[t][k].slot

\* A dispatch has invoked the console sink and then two registered sinks.
C10_Witness ==
    \E t \in Threads :
        /\ Done(t)
        /\ Positions(t, {"console"}) # {}
        /\ Cardinality(FiredSlots(t)) >= 2

\* C11: every sink is invoked with the event's context bound to its own
\* context: the console sink sees stderr, the registered sink of a slot
\* sees the udata stored in that slot, whatever sink was invoked before.
C11_ContextRebound ==
    \A t \in Threads :
        \A k \in Invocations(t) :
            /\ trace[t][k].op = "console" =>
                  /\ trace[t][k].fn = stdout_callback
                  /\ trace[t][k].udata = stderr
            /\ trace[t][k].op = "sink" =>
                  /\ trace[t][k].fn = L.callbacks[trace[t][k].slot].fn
                  /\ trace[t][k].udata = L.callbacks[trace[t][k].slot].udata

\* One dispatch has invoked the console sink and then two registered sinks
\* with different contexts.
C11_Witness ==
    \E t \in Threads :
        /\ Done(t)
        /\ Positions(t, {"console"}) # {}
        /\ \E j, k \in Positions(t, {"sink"}) :
              /\ j < k
              /\ trace[t][j].udata # trace[t][k].udata
              /\ trace[t][j].udata # stderr

\* C12, as stated: every registration call that returns success has added
\* one registration to the sink list.
C12_SuccessAppendsOne ==
    [][ (Registration /\ ret' = 0) =>
          Cardinality(Registered') = Cardinality(Registered) + 1 ]_vars

\* Arguments (fn, udata) of the registration calls that pass a sink.
SinkArgs == CallbackArgs \cup { << file_callback, fp >> : fp \in Files }

\* C12, amended: a registration call that passes a non-null callback and
\* returns success has put that sink, with its context and threshold, in
\* the slot after the last registered one and left the others as they
\* were; a later dispatch visits every registered slot and invokes exactly
\* the sinks whose threshold its level reaches. (A registration call is a
\* step between dispatches that changes at most the sink list; only such
\* steps are matched against the calls.)
C12_SinkAppended ==
    /\ [][ (/\ Dispatching = {} /\ Dispatching' = {}
            /\ ret' = 0
            /\ L' = [L EXCEPT !.callbacks = L'.callbacks]) =>
              \A a \in SinkArgs, l \in Levels :
                  log_add_callback(a[1], a[2], l, TRUE) =>
                      LET n == Cardinality(Registered) IN
                      /\ n < MAX_CALLBACKS
                      /\ Registered = 0 .. (n - 1)
                      /\ Registered' = 0 .. n
                      /\ L'.callbacks[n] =
                            [fn |-> a[1], udata |-> a[2], level |-> l]
                      /\ \A s \in Registered :
                            L'.callbacks[s] = L.callbacks[s] ]_vars
    /\ [](\A t \in Threads :
            Done(t) =>
                /\ i[t] = Cardinality(Registered)
                /\ FiredSlots(t) = Satisfied(ev[t].level))

\* The last registration call succeeded and a later dispatch has visited
\* every slot and invoked the sink registered last.
C12_Witness ==
    /\ ret = 0
    /\ Registered # {}
    /\ \E t \in Threads :
          /\ Done(t)
          /\ i[t] = Cardinality(Registered)
          /\ (Cardinality(Registered) - 1) \in FiredSlots(t)

\* C13: every step leaves each registered sink in its slot, unmodified,
\* so the sink list before the step is a prefix of the list after it; the
\* list fills slots 0 .. n-1 and never holds more than MAX_CALLBACKS sinks.
C13_AppendOnly ==
    [][ /\ \A s \in Registered : L'.callbacks[s] = L.callbacks[s]
        /\ Registered = 0 .. (Cardinality(Registered) - 1)
        /\ Registered' = 0 .. (Cardinality(Registered') - 1)
        /\ Cardinality(Registered') <= MAX_CALLBACKS ]_vars

\* The list is full of sinks that differ, and a dispatch has run since the
\* last one was registered.
C13_Witness ==
    /\ Cardinality(Registered) = MAX_CALLBACKS
    /\ \E r, s \in Registered : L.callbacks[r] # L.callbacks[s]
    /\ \E t \in Threads : Done(t) /\ FiredSlots(t) # {}

\* Positions of trace[t] that a step has added.
Added(t) == (Len(trace[t]) + 1) .. Len(trace'[t])

\* C14: log_set_lock(fn, udata) leaves fn and udata installed, whatever
\* was installed before; nothing else changes the hook; and every hook
\* call a dispatch makes is a call of the hook installed last, with the
\* context installed with it, and no hook is called while the installed
\* function is null.
C14_HookReplaced ==
    [][ /\ \A a \in LockArgs :
              log_set_lock(a[1], a[2], FALSE) =>
                  (L'.lock = a[1] /\ L'.udata = a[2])
        /\ (L'.lock # L.lock \/ L'.udata # L.udata) =>
              \E a \in LockArgs : log_set_lock(a[1], a[2], FALSE)
        /\ \A t \in Threads :
              \A k \in Added(t) :
                  trace'[t][k].op \in {"acquire", "release"} =>
                      /\ L.lock # NULL
                      /\ trace'[t][k].fn = L.lock
                      /\ trace'[t][k].udata = L.udata ]_vars

\* One hook was put in the place of another during a dispatch, which
\* acquired the one and released the other, and a dispatch has made both
\* its hook calls on the hook now installed.
C14_Witness ==
    \E t, u \in Threads :
        /\ Done(t) /\ Done(u)
        /\ \E j \in Positions(t, {"acquire"}), k \in Positions(t, {"release"}) :
              /\ trace[t][j].fn # trace[t][k].fn
              /\ trace[t][k].fn = L.lock
        /\ Positions(u, {"acquire"}) # {}
        /\ Positions(u, {"release"}) # {}
        /\ \A k \in Positions(u, {"acquire", "release"}) :
              trace[u][k].fn = L.lock /\ trace[u][k].udata = L.udata

\* C15, as stated: every dispatch, once started, returns.
C15_DispatchCompletes ==
    \A t \in Threads : (pc[t] = "lock") ~> (pc[t] = "done")

\* C16: with no lock hook installed, lock() never makes a dispatch wait,
\* not even while another dispatch is between two of its sink invocations;
\* and a dispatch between whose sink invocations another dispatch invoked
\* a sink took no lock (the hook not having changed under a dispatch).
C16_UnlockedInterleaves ==
    /\ ~Installed => \A t \in Threads : pc[t] = "lock" => ENABLED Lock(t)
    /\ \A t \in Threads :
          (cut[t] /\ ~lockRaced) => Positions(t, {"acquire"}) = {}

\* No hook is installed and none was called; between two sink invocations
\* of one dispatch the other dispatch has invoked a sink, and both have
\* invoked a sink with the same output stream.
C16_Witness ==
    /\ ~Installed
    /\ ~lockRaced
    /\ \E t, u \in Threads :
          /\ t # u
          /\ cut[t]
          /\ Positions(t, {"acquire"}) = {}
          /\ Positions(u, {"acquire"}) = {}
          /\ \E j \in Invocations(t), k \in Invocations(u) :
                /\ trace[t][j].fn = trace[u][k].fn
                /\ trace[t][j].udata = trace[u][k].udata

\* C17: log_level_string returns a string for each of the six levels, no
\* two levels get the same string, a level gets the same string at every
\* call, and a call leaves the registry as it was.
C17_LevelStringInjective ==
    /\ [](\A l1, l2 \in Levels :
            (names[l1] # NULL /\ names[l1] = names[l2]) => l1 = l2)
    /\ [][ \A l \in Levels :
              LevelString(l) =>
                  /\ names'[l] # NULL
                  /\ names[l] # NULL => names'[l] = names[l]
                  /\ L' = L ]_vars

\* log_level_string has been called for each of the six levels, with the
\* registry changed from its initial value.
C17_Witness ==
    /\ \A l \in Levels : names[l] # NULL
    /\ L.quiet
    /\ L.level # LOG_TRACE
    /\ Installed
    /\ Registered # {}

\* C18, as stated: a dispatch that has returned made as many release calls
\* as acquire calls, and its release on the hook function and context of
\* its acquire.
C18_BalancedOnOneHook ==
    \A t \in Threads :
        Done(t) =>
            /\ Cardinality(Positions(t, {"acquire"})) =
                  Cardinality(Positions(t, {"release"}))
            /\ \A j \in Positions(t, {"acquire"}),
                  k \in Positions(t, {"release"}) :
                    /\ trace[t][j].fn = trace[t][k].fn
                    /\ trace[t][j].udata = trace[t][k].udata

\* C19: no empty slot comes before an occupied one, and the loop of a
\* dispatch, which stops at the first empty slot, has gone through every
\* registered sink when it ends.
C19_ContiguousPrefix ==
    /\ \A s \in Registered : \A r \in Slots : r < s => r \in Registered
    /\ \A t \in Threads :
          pc[t] \in {"unlock", "done"} => i[t] = Cardinality(Registered)

\* Some slots are occupied and some are free, and the loop of a dispatch
\* has ended after invoking the sink of every occupied slot.
C19_Witness ==
    /\ Registered # {}
    /\ Registered # Slots
    /\ \E t \in Threads :
          /\ pc[t] \in {"unlock", "done"}
          /\ FiredSlots(t) = Registered

\* C20: from the call of log_log to its return no step changes the
\* registry: the global level, the quiet flag, the hook and its context
\* and the sink list stay what they were at the call.
C20_DispatchKeepsRegistry ==
    [][ (Dispatching # {} \/ Dispatching' # {}) => L' = L ]_vars

\* A dispatch has called the hook, invoked the console sink and every
\* registered sink and returned, with a registry set away from its
\* initial value.
C20_Witness ==
    /\ Installed
    /\ L.level # LOG_TRACE
    /\ Registered = Slots
    /\ \E t \in Threads :
          /\ Done(t)
          /\ Positions(t, {"acquire"}) # {}
          /\ Positions(t, {"console"}) # {}
          /\ FiredSlots(t) = Registered

====
